---- MODULE Spec2Model ----
(***************************************************************************)
(* The GBXRemote client (gbx_call) and the status poller                   *)
(* (poll_server_status) of src/app.py.                                     *)
(*                                                                         *)
(* The specifications share the variables:                                 *)
(*   CallSpec  one gbx_call invocation after another against a server that *)
(*             may answer, send callbacks, stall, close or send rubbish;   *)
(*   FairCallSpec  CallSpec with an event loop that runs what is ready;    *)
(*   PollSpec  the poller's ticks, each gbx_call summarised by the value   *)
(*             it returns: every kind of value, calls that take no time;   *)
(*   TimerSpec the same ticks with calls that take time, a wall clock that *)
(*             may be set back, and a server that answers or is            *)
(*             unavailable.                                                *)
(* Times are integers in milliseconds.                                     *)
(***************************************************************************)
EXTENDS Integers, Sequences, FiniteSets, TLC

VARIABLES
    \* ---- gbx_call ----
    gpc,        \* position inside gbx_call
    method,     \* the requested method
    cur_call,   \* the method of the running call(m, *a), "" outside one
    handle,     \* the nonlocal handle counter
    frames,     \* iterations of "for _ in range(10)" begun in the running call
    size,       \* the handshake's size
    resp_size,  \* the running frame's resp_size
    inflight,   \* the frame the server is sending
    sock,       \* the connection's socket: "none", "open", "closed"
    callres,    \* what the last call(m, *a) returned
    result,     \* what gbx_call returned
    pending,    \* server side: the requests received and not yet answered
    \* ---- gbx_call, history ----
    framesRead, \* frames wholly read by the running call
    notifs,     \* of these, the frames with a correlation value below 2^31
    lastFrame,  \* the frame that ended the running call, NoFrame if none did
    failed,     \* some stage of the invocation failed
    \* ---- poll_server_status ----
    ppc,        \* position inside the loop body
    tick,       \* number of the running iteration of "while True"
    now,        \* the wall clock, time.time()
    current, next_map, game_info,
    server_status,
    _last_map_uid,
    _map_start_time,
    observed,   \* the snapshot a reader (api_leaderboard) is returning
    \* ---- poll_server_status, history ----
    hLastCurUid,  \* UId of the last current-map-info call that returned a struct
    hLastBothUid, \* UId of the last tick that reached the UId comparison
    hFirstSeen,   \* time of the tick that first saw the UId of hLastCurUid
    hResetTime,   \* time of the last tick that reset _map_start_time
    hGap,         \* how far the clock moved between the last tick's two readings
    hLastPop,     \* the last populated snapshot: its time_remaining, with the
                  \* TimeAttackLimit, UId, _map_start_time and clock reading it
                  \* was computed from
    hPrevPop      \* what hLastPop was before the last finished tick

callVars == <<gpc, method, cur_call, handle, frames, size, resp_size, inflight,
              sock, callres, result, pending, framesRead, notifs, lastFrame, failed>>
pollVars == <<ppc, tick, now, current, next_map, game_info, server_status,
              _last_map_uid, _map_start_time, observed,
              hLastCurUid, hLastBothUid, hFirstSeen, hResetTime, hGap, hLastPop,
              hPrevPop>>
vars == <<callVars, pollVars>>

(***************************************************************************)
(* Values of the XML-RPC layer                                             *)
(***************************************************************************)
None == [kind |-> "none"]
Unset == [kind |-> "unset"]
\* A value that is true and no struct: the boolean Authenticate answers with.
ScalarTrue == [kind |-> "scalar"]
Struct(f) == [kind |-> "struct", fields |-> f]

IsStruct(v) == v.kind = "struct"
\* Python's truth value of what gbx_call returned.
Truthy(v) == v.kind = "scalar" \/ (v.kind = "struct" /\ DOMAIN v.fields # {})
\* d.get(key, default)
Get(v, key, default) == IF key \in DOMAIN v.fields THEN v.fields[key] ELSE default

Methods == {"GetCurrentChallengeInfo", "GetNextChallengeInfo", "GetCurrentGameInfo"}

\* Map names are sequences of characters.
NameAlpha == <<"$", "f", "0", "0", "A", "l", "$", "i", "f", "a">>
NameBeta  == <<"$", "l", "[", "x", "]", "B", "$", "s", "e", "t", "a", "$">>
NameGamma == <<"G", "$", "$", "$", "h", "a", "$", "w", "m">>

MapInfos == { Struct([UId |-> "A", Name |-> NameAlpha]),
              Struct([UId |-> "B", Name |-> NameBeta]),
              Struct([Name |-> NameGamma]) }
NextInfos == { Struct([UId |-> "B", Name |-> NameBeta]) }
GameInfos == { Struct([TimeAttackLimit |-> 90000]),
               Struct([TimeAttackLimit |-> 60500]),
               Struct([GameMode |-> 1]) }

\* What the server answers to a method.
ServerReplies(m) ==
    CASE m = "Authenticate"            -> {ScalarTrue}
      [] m = "GetCurrentChallengeInfo" -> MapInfos
      [] m = "GetNextChallengeInfo"    -> NextInfos
      [] m = "GetCurrentGameInfo"      -> GameInfos

(***************************************************************************)
(* Frames and envelopes                                                    *)
(***************************************************************************)
\* A uint32 is kept as its two 16-bit halves, [hi, lo].
Half == 65536
U32(hi, lo) == [hi |-> hi, lo |-> lo]
U32Geq(a, b) == a.hi > b.hi \/ (a.hi = b.hi /\ a.lo >= b.lo)
\* x + 1 on a uint32
U32Inc(a) == IF a.lo + 1 < Half THEN U32(a.hi, a.lo + 1)
             ELSE U32((a.hi + 1) % Half, 0)

HandleBase == U32(32768, 1)     \* 0x80000001
ResponseBase == U32(32768, 0)   \* 0x80000000
FrameBudget == 10
HeaderLen == 4

Params(ps) == [kind |-> "params", params |-> ps]
Fault == [kind |-> "fault"]
Garbage == [kind |-> "garbage"]
\* A methodCall document sent by the server (a callback), with one parameter.
Callback == [kind |-> "callback", params |-> <<ScalarTrue>>]

\* Length of an envelope on the wire, in abstract units; only the empty
\* document has length 0.
EnvLen(e) ==
    CASE e.kind = "garbage"  -> 0
      [] e.kind = "fault"    -> 2
      [] e.kind = "callback" -> 1 + Len(e.params)
      [] e.kind = "params"   -> 1 + Len(e.params)

NoFrame == [size |-> 0, handle |-> U32(0, 0), env |-> Garbage, replyTo |-> "noframe"]
Frame(h, e, r) == [size |-> HeaderLen + EnvLen(e), handle |-> h, env |-> e, replyTo |-> r]
\* A frame whose length prefix announces fewer than the 4 bytes of a handle.
Runt(n) == [size |-> n, handle |-> U32(0, 0), env |-> Garbage, replyTo |-> "none"]

NotifHandles == {U32(0, 0), U32(32767, 65535)}
BannerSizes == {0, 11}

ReplyEnvelopes(m) ==
    { Params(<<v>>) : v \in ServerReplies(m) }
      \cup { Params(<< >>), Fault, Garbage }
      \cup { Params(<<v, ScalarTrue>>) : v \in ServerReplies(m) }

\* The frames the server may send next: a callback at any time, the answer to
\* the oldest unanswered request, or a runt.
ServerFrames ==
    { Frame(h, Callback, "none") : h \in NotifHandles }
      \cup (IF pending = << >> THEN {}
            ELSE { Frame(Head(pending).handle, e, Head(pending).m) :
                     e \in ReplyEnvelopes(Head(pending).m) })
      \cup { Runt(0), Runt(3) }

\* The comparison gone: every frame is taken for the response.
AnyFrameIsResponse(resp_handle) == TRUE

\* resp_handle >= 0x80000000
IsResponse(resp_handle) == U32Geq(resp_handle, ResponseBase)

\* xmlrpc.client.loads: the params of a methodResponse or of a methodCall; a
\* fault or a document that does not parse raises.
LoadsRaises(e) == e.kind \notin {"params", "callback"}
Loads(e) == e.params
\* result[0] if result else None
FirstOrNone(res) == IF Len(res) > 0 THEN res[1] ELSE None

(***************************************************************************)
(* gbx_call                                                                *)
(***************************************************************************)
CallInit ==
    /\ gpc = "idle" /\ method = "" /\ cur_call = "" /\ handle = U32(0, 0) /\ frames = 0
    /\ size = 0 /\ resp_size = 0 /\ inflight = NoFrame /\ sock = "none"
    /\ callres = Unset /\ result = Unset /\ pending = << >>
    /\ framesRead = 0 /\ notifs = 0 /\ lastFrame = NoFrame /\ failed = FALSE

\* except Exception: return None.  The socket is left as it is.
Raise ==
    /\ gpc' = "returned" /\ result' = None /\ failed' = TRUE
    /\ UNCHANGED <<pollVars, method, cur_call, handle, frames, size, resp_size, inflight,
                   sock, callres, pending, framesRead, notifs, lastFrame>>

Invoke(m) ==
    /\ gpc \in {"idle", "returned"}
    /\ gpc' = "connecting" /\ method' = m /\ cur_call' = "" /\ handle' = U32(0, 0)
    /\ frames' = 0 /\ size' = 0 /\ resp_size' = 0 /\ inflight' = NoFrame
    /\ sock' = "none" /\ callres' = Unset /\ result' = Unset /\ pending' = << >>
    /\ framesRead' = 0 /\ notifs' = 0 /\ lastFrame' = NoFrame /\ failed' = FALSE
    /\ UNCHANGED pollVars

ConnectOk ==
    /\ gpc = "connecting"
    /\ gpc' = "hs_size" /\ sock' = "open"
    /\ UNCHANGED <<pollVars, method, cur_call, handle, frames, size, resp_size, inflight,
                   callres, result, pending, framesRead, notifs, lastFrame, failed>>

ConnectRefused == gpc = "connecting" /\ Raise
ConnectTimeout == gpc = "connecting" /\ Raise

\* size_data = await wait_for(reader.readexactly(4), 3)
HsSize ==
    /\ gpc = "hs_size"
    /\ gpc' = "hs_body" /\ size' \in BannerSizes
    /\ UNCHANGED <<pollVars, method, cur_call, handle, frames, resp_size, inflight, sock,
                   callres, result, pending, framesRead, notifs, lastFrame, failed>>

HsSizeEOF == gpc = "hs_size" /\ Raise
HsSizeTimeout == gpc = "hs_size" /\ Raise

HsDone ==
    /\ gpc' = "send" /\ handle' = HandleBase /\ cur_call' = "Authenticate"
    /\ UNCHANGED <<pollVars, method, frames, size, resp_size, inflight, sock, callres,
                   result, pending, framesRead, notifs, lastFrame, failed>>

\* await reader.readexactly(size): no bytes to wait for when size = 0.
HsBodyEmpty == gpc = "hs_body" /\ size = 0 /\ HsDone
\* ... and otherwise it waits for the server, under no timeout.
HsBody == gpc = "hs_body" /\ size > 0 /\ HsDone
HsBodyEOF == gpc = "hs_body" /\ size > 0 /\ Raise

\* call(m, *a) up to the read loop: handle += 1, write, drain.  The request
\* is a few hundred bytes on a connection whose send buffer is empty or holds
\* one such request, so drain() does not wait.
SendRequest ==
    /\ gpc = "send"
    /\ handle' = U32Inc(handle)
    /\ pending' = Append(pending, [handle |-> U32Inc(handle), m |-> cur_call])
    /\ frames' = 0 /\ framesRead' = 0 /\ notifs' = 0 /\ lastFrame' = NoFrame
    /\ callres' = Unset
    /\ gpc' = "rd_size"
    /\ UNCHANGED <<pollVars, method, cur_call, size, resp_size, inflight, sock, result, failed>>

\* One more iteration of the loop: the 4 bytes of resp_size arrive.
ReadFrameSize ==
    /\ gpc = "rd_size" /\ frames < FrameBudget
    /\ \E f \in ServerFrames :
          frames' = frames + 1 /\ inflight' = f /\ resp_size' = f.size
    /\ gpc' = "rd_body"
    /\ UNCHANGED <<pollVars, method, cur_call, handle, size, sock, callres, result, pending,
                   framesRead, notifs, lastFrame, failed>>

FrameSizeEOF == gpc = "rd_size" /\ frames < FrameBudget /\ Raise
FrameSizeTimeout == gpc = "rd_size" /\ frames < FrameBudget /\ Raise

\* The loop ran out: call returns None.
BudgetExhausted ==
    /\ gpc = "rd_size" /\ frames >= FrameBudget
    /\ callres' = None /\ failed' = TRUE /\ gpc' = "call_done"
    /\ UNCHANGED <<pollVars, method, cur_call, handle, frames, size, resp_size, inflight,
                   sock, result, pending, framesRead, notifs, lastFrame>>

\* struct.unpack("<I", resp_data[:4]) on fewer than 4 bytes raises.
RuntFrame == gpc = "rd_body" /\ resp_size < HeaderLen /\ Raise

\* The frame is a callback: go round the loop.
SkipFrame ==
    /\ gpc = "rd_body" /\ resp_size >= HeaderLen
    /\ ~IsResponse(inflight.handle)
    /\ framesRead' = framesRead + 1
    /\ notifs' = notifs + (IF inflight.handle.hi < 32768 THEN 1 ELSE 0)
    /\ pending' = IF inflight.replyTo = "none" THEN pending ELSE Tail(pending)
    /\ gpc' = "rd_size"
    /\ UNCHANGED <<pollVars, method, cur_call, handle, frames, size, resp_size, inflight,
                   sock, callres, result, lastFrame, failed>>

\* The frame is a response and its envelope loads: call returns.
TakeResponse ==
    /\ gpc = "rd_body" /\ resp_size >= HeaderLen
    /\ IsResponse(inflight.handle)
    /\ ~LoadsRaises(inflight.env)
    /\ framesRead' = framesRead + 1
    /\ notifs' = notifs + (IF inflight.handle.hi < 32768 THEN 1 ELSE 0)
    /\ pending' = IF inflight.replyTo = "none" THEN pending ELSE Tail(pending)
    /\ lastFrame' = inflight
    /\ callres' = FirstOrNone(Loads(inflight.env))
    /\ gpc' = "call_done"
    /\ UNCHANGED <<pollVars, method, cur_call, handle, frames, size, resp_size, inflight,
                   sock, result, failed>>

\* The frame is a response and loads raises (a Fault, or no XML).
BadResponse ==
    /\ gpc = "rd_body" /\ resp_size >= HeaderLen
    /\ IsResponse(inflight.handle)
    /\ LoadsRaises(inflight.env)
    /\ Raise

FrameBodyEOF == gpc = "rd_body" /\ resp_size > 0 /\ Raise
FrameBodyTimeout == gpc = "rd_body" /\ resp_size > 0 /\ Raise

\* await call("Authenticate", ...) is done: its value is dropped, the
\* requested call is next.
AuthReturn ==
    /\ gpc = "call_done" /\ cur_call = "Authenticate"
    /\ cur_call' = method /\ gpc' = "send"
    /\ UNCHANGED <<pollVars, method, handle, frames, size, resp_size, inflight, sock,
                   callres, result, pending, framesRead, notifs, lastFrame, failed>>

\* result = await call(method, *args); writer.close(); return result
MethodReturn ==
    /\ gpc = "call_done" /\ cur_call # "Authenticate"
    /\ sock' = "closed" /\ result' = callres /\ gpc' = "returned"
    /\ UNCHANGED <<pollVars, method, cur_call, handle, frames, size, resp_size, inflight,
                   callres, pending, framesRead, notifs, lastFrame, failed>>

\* Steps the client takes by itself: timers firing and code that does not wait.
ClientStep ==
    \/ ConnectTimeout \/ HsSizeTimeout \/ HsBodyEmpty \/ SendRequest
    \/ FrameSizeTimeout \/ BudgetExhausted \/ RuntFrame \/ SkipFrame
    \/ TakeResponse \/ BadResponse \/ FrameBodyTimeout \/ AuthReturn \/ MethodReturn

\* Steps that need the server (or the network) to do something.
ServerStep ==
    \/ ConnectOk \/ ConnectRefused
    \/ HsSize \/ HsSizeEOF
    \/ HsBody \/ HsBodyEOF
    \/ ReadFrameSize \/ FrameSizeEOF
    \/ FrameBodyEOF

(***************************************************************************)
(* strip_tm_formatting                                                     *)
(***************************************************************************)
HexDigits == {"0", "1", "2", "3", "4", "5", "6", "7", "8", "9",
              "a", "b", "c", "d", "e", "f", "A", "B", "C", "D", "E", "F"}

\* Position of the first "]" at or after j, 0 if there is none.
FirstBracket(s, j) ==
    IF \E k \in j..Len(s) : s[k] = "]"
    THEN CHOOSE k \in j..Len(s) : s[k] = "]" /\ \A n \in j..(k - 1) : s[n] # "]"
    ELSE 0

\* Length of the match of \$([0-9a-fA-F]{3}|[lh]\[.*?\]|[lh]|.) at the "$" at
\* position i, 0 if it does not match there.
MatchLen(s, i) ==
    IF i + 3 <= Len(s) /\ \A k \in (i + 1)..(i + 3) : s[k] \in HexDigits THEN 4
    ELSE IF /\ i + 2 <= Len(s) /\ s[i + 1] \in {"l", "h"} /\ s[i + 2] = "["
            /\ FirstBracket(s, i + 3) # 0
            /\ \A n \in (i + 3)..(FirstBracket(s, i + 3) - 1) : s[n] # "\n"
         THEN FirstBracket(s, i + 3) - i + 1
    ELSE IF i + 1 <= Len(s) /\ s[i + 1] # "\n" THEN 2
    ELSE 0

RECURSIVE StripFrom(_, _)
StripFrom(s, i) ==
    IF i > Len(s) THEN << >>
    ELSE IF s[i] = "$" /\ MatchLen(s, i) > 0 THEN StripFrom(s, i + MatchLen(s, i))
    ELSE <<s[i]>> \o StripFrom(s, i + 1)

strip_tm_formatting(text) == StripFrom(text, 1)

(***************************************************************************)
(* poll_server_status                                                      *)
(***************************************************************************)
\* asyncio.sleep(5)
SleepPeriod == 5000
\* Iterations of "while True" explored under PollSpec and under TimerSpec, and
\* the latest clock reading explored.
MaxTicks == 3
MaxTimerTicks == 3
MaxTime == 121000
\* No time yet (history variables).
NoTime == 0 - 1

StartTimes == {1000}
\* How long one gbx_call may take.
QuickCalls == {0}
CallDurations == {25000, 60000}
\* How far the clock may move between the readings of time.time() at lines 95
\* and 98: not at all, or by less than the model's unit of time (1 stands for
\* any such amount; int() of the remaining time is the same for all of them).
ClockGaps == {0, 1}
\* Adjustments of the wall clock during one sleep.
SteadyClock == {0}
ClockSteps == {0, 0 - 30000}

\* What gbx_call(m) may return: None, one of the server's answers to m, or
\* the answer to Authenticate.
GbxCallResults(m) == {None, ScalarTrue} \cup ServerReplies(m)

EmptySnapshot == << >>
SnapshotFields == {"current_map", "next_map", "time_remaining", "time_limit"}
Populated(st) == st # EmptySnapshot

Max(a, b) == IF a >= b THEN a ELSE b
\* int(x) of a number of seconds held in milliseconds: towards zero.
IntSeconds(ms) == IF ms >= 0 THEN ms \div 1000 ELSE 0 - ((0 - ms) \div 1000)

\* if current and game_info
BothReturned(cur, gi) == Truthy(cur) /\ Truthy(gi)
\* The comparison gone: every tick counts as a new map.
AlwaysChanged(cur, last) == TRUE
\* uid != _last_map_uid
UidChanged(cur, last) == Get(cur, "UId", "") # last
\* time.time() - _map_start_time if _map_start_time else 0
Elapsed(t, start) == IF start # 0 THEN t - start ELSE 0
\* The clamp gone.
RemainingUnclamped(ta_limit, elapsed) == ta_limit - elapsed
\* max(0, ta_limit - elapsed), in milliseconds
Remaining(ta_limit, elapsed) == Max(0, ta_limit - elapsed)

\* A placeholder name in place of "" when there is no next map.
StatusDictUnknownNext(cur, nxt, remaining, ta_limit, tk) ==
    [ current_map    |-> [val |-> strip_tm_formatting(Get(cur, "Name", << >>)), tick |-> tk],
      next_map       |-> [val |-> IF Truthy(nxt)
                                  THEN strip_tm_formatting(Get(nxt, "Name", << >>))
                                  ELSE <<"?">>,
                          tick |-> tk],
      time_remaining |-> [val |-> IntSeconds(remaining), tick |-> tk],
      time_limit     |-> [val |-> IntSeconds(ta_limit), tick |-> tk] ]

\* The dict of lines 101-108.  Each field carries the time of the tick that
\* computed it.
StatusDict(cur, nxt, remaining, ta_limit, tk) ==
    [ current_map    |-> [val |-> strip_tm_formatting(Get(cur, "Name", << >>)), tick |-> tk],
      next_map       |-> [val |-> IF Truthy(nxt)
                                  THEN strip_tm_formatting(Get(nxt, "Name", << >>))
                                  ELSE << >>,
                          tick |-> tk],
      time_remaining |-> [val |-> IntSeconds(remaining), tick |-> tk],
      time_limit     |-> [val |-> IntSeconds(ta_limit), tick |-> tk] ]

\* The dict updated in place, field by field, and caught before time_limit
\* was written.
UpdateInPlace(old, new) ==
    IF old = << >> THEN new ELSE [new EXCEPT !.time_limit = old.time_limit]

\* server_status = {...}: the name is bound to the new dict, the old dict is
\* not touched.
Rebind(old, new) == new

\* The last good snapshot kept on a failed tick.
KeepLastGood(old) == old

\* server_status = {} of lines 110 and 112.
FailedSnapshot(old) == EmptySnapshot

\* An attribute lookup on a value that is no dict raises AttributeError.
RaisesAtUid(cur) == ~IsStruct(cur)                                  \* line 92
RaisesAtLimit(gi) == ~IsStruct(gi)                                  \* line 97
RaisesAtNext(nxt) == Truthy(nxt) /\ ~IsStruct(nxt)                  \* line 104

\* Where the loop goes after the try statement: except Exception catches
\* whatever the body raised.
AfterTry(raised) == "sleep"

PollInit ==
    /\ ppc = "call_current" /\ tick = 1 /\ now \in StartTimes
    /\ current = Unset /\ next_map = Unset /\ game_info = Unset
    /\ server_status = EmptySnapshot /\ _last_map_uid = "" /\ _map_start_time = 0
    /\ observed = Unset
    /\ hLastCurUid = "" /\ hLastBothUid = "" /\ hFirstSeen = NoTime
    /\ hResetTime = NoTime /\ hGap = 0 /\ hLastPop = << >>
    /\ hPrevPop = << >>

hVars == <<hLastCurUid, hLastBothUid, hFirstSeen, hResetTime, hGap, hLastPop,
          hPrevPop>>

\* current = await gbx_call("GetCurrentChallengeInfo")
PollCurrent(results, durations) ==
    /\ ppc = "call_current"
    /\ \E r \in results, d \in durations :
          /\ now + d <= MaxTime
          /\ current' = r /\ now' = now + d
    /\ ppc' = "call_next"
    /\ observed' = Unset
    /\ UNCHANGED <<callVars, tick, next_map, game_info, server_status,
                   _last_map_uid, _map_start_time, hVars>>

\* next_map = await gbx_call("GetNextChallengeInfo")
PollNextMap(results, durations) ==
    /\ ppc = "call_next"
    /\ \E r \in results, d \in durations :
          /\ now + d <= MaxTime
          /\ next_map' = r /\ now' = now + d
    /\ ppc' = "call_game"
    /\ observed' = Unset
    /\ UNCHANGED <<callVars, tick, current, game_info, server_status,
                   _last_map_uid, _map_start_time, hVars>>

\* game_info = await gbx_call("GetCurrentGameInfo")
PollGameInfo(results, durations) ==
    /\ ppc = "call_game"
    /\ \E r \in results, d \in durations :
          /\ now + d <= MaxTime
          /\ game_info' = r /\ now' = now + d
    /\ ppc' = "publish"
    /\ observed' = Unset
    /\ UNCHANGED <<callVars, tick, current, next_map, server_status,
                   _last_map_uid, _map_start_time, hVars>>

\* Lines 91-112, which hold no await: one step.
Publish ==
    /\ ppc = "publish"
    /\ \E g \in ClockGaps :
        LET both    == BothReturned(current, game_info)
            atUid   == both /\ RaisesAtUid(current)
            reset   == both /\ ~atUid /\ UidChanged(current, _last_map_uid)
            atLimit == both /\ ~atUid /\ RaisesAtLimit(game_info)
            \* time.time() is read at line 95 (now) and again at line 98
            twice   == reset /\ ~atLimit
            t       == now + g
            start   == IF reset THEN now ELSE _map_start_time
            raised  == atUid \/ atLimit \/ (both /\ RaisesAtNext(next_map))
            ta_limit == Get(game_info, "TimeAttackLimit", 0)
            remaining == Remaining(ta_limit, Elapsed(t, start))
            status  == IF both /\ ~raised
                       THEN Rebind(server_status,
                                   StatusDict(current, next_map, remaining,
                                              ta_limit, now))
                       ELSE FailedSnapshot(server_status)
        IN  /\ (g = 0 \/ twice)
            /\ _last_map_uid' = IF reset THEN Get(current, "UId", "") ELSE _last_map_uid
            /\ _map_start_time' = start
            /\ server_status' = status
            /\ hGap' = g
            /\ ppc' = AfterTry(raised)
            /\ hResetTime' = IF reset THEN now ELSE hResetTime
            /\ hLastBothUid' = IF both /\ ~atUid THEN Get(current, "UId", "")
                               ELSE hLastBothUid
            /\ hLastCurUid' = IF IsStruct(current) THEN Get(current, "UId", "")
                              ELSE hLastCurUid
            /\ hFirstSeen' = IF IsStruct(current)
                                /\ (hFirstSeen = NoTime
                                    \/ Get(current, "UId", "") # hLastCurUid)
                             THEN now ELSE hFirstSeen
            /\ hLastPop' = IF both /\ ~raised
                           THEN [rem |-> status.time_remaining.val, limit |-> ta_limit,
                                 uid |-> Get(current, "UId", ""), start |-> start,
                                 at |-> t]
                           ELSE hLastPop
            /\ hPrevPop' = hLastPop
    /\ observed' = Unset
    /\ UNCHANGED <<callVars, tick, now, current, next_map, game_info>>

\* await asyncio.sleep(5), then round the loop.  time.time() is the wall
\* clock: while the task sleeps it advances by the period, and it may have
\* been set back.
Sleep(ticks, steps) ==
    /\ ppc = "sleep"
    /\ tick < ticks
    /\ \E step \in steps :
          /\ now + SleepPeriod + step >= 1
          /\ now + SleepPeriod + step <= MaxTime
          /\ now' = now + SleepPeriod + step
    /\ tick' = tick + 1
    /\ ppc' = "call_current"
    /\ current' = Unset /\ next_map' = Unset /\ game_info' = Unset
    /\ observed' = Unset
    /\ UNCHANGED <<callVars, server_status, _last_map_uid, _map_start_time, hVars>>

\* api_leaderboard returns the dict server_status names at that moment; the
\* response is on its way until the poller's next step.
Reader ==
    /\ observed' = server_status
    /\ UNCHANGED <<callVars, ppc, tick, now, current, next_map, game_info,
                   server_status, _last_map_uid, _map_start_time, hVars>>

\* The state when the module has been loaded: no call running, the poller
\* task about to make its first call.
Init == CallInit /\ PollInit

\* Every kind of result for the game info, with one time limit.
PollGame ==
    { v \in GbxCallResults("GetCurrentGameInfo") :
        IsStruct(v) => Get(v, "TimeAttackLimit", 90000) = 90000 }

PollNext ==
    \/ PollCurrent(GbxCallResults("GetCurrentChallengeInfo"), QuickCalls)
    \/ PollNextMap(GbxCallResults("GetNextChallengeInfo"), QuickCalls)
    \/ PollGameInfo(PollGame, QuickCalls)
    \/ Publish \/ Sleep(MaxTicks, SteadyClock) \/ Reader

PollSpec == Init /\ [][PollNext]_vars

\* A server whose game info has a limit, or that is unavailable for the game
\* info.
TimerCurrent == MapInfos
TimerGame == {None} \cup { v \in GameInfos : "TimeAttackLimit" \in DOMAIN v.fields }

TimerNext ==
    \/ PollCurrent(TimerCurrent, CallDurations)
    \/ PollNextMap(NextInfos, QuickCalls)
    \/ PollGameInfo(TimerGame, QuickCalls)
    \/ Publish \/ Sleep(MaxTimerTicks, ClockSteps)

TimerSpec == Init /\ [][TimerNext]_vars

GbxNext ==
    \/ (\E m \in Methods : Invoke(m))
    \/ ClientStep
    \/ ServerStep

CallSpec == Init /\ [][GbxNext]_vars

\* The event loop runs what is ready and fires the timers of wait_for; nothing
\* obliges the server to send.
FairCallSpec == CallSpec /\ WF_vars(ClientStep)

(***************************************************************************)
(* Claims about gbx_call                                                   *)
(***************************************************************************)

\* C1: an invocation in which any stage failed, the frame budget of either
\* call running out included, returns None.
C1_FailureIsUnavailable ==
    (gpc = "returned" /\ failed) => result = None

\* C2: every invocation that has started returns in the end.
C2_CallReturns ==
    [](gpc \notin {"idle", "returned"} => <>(gpc = "returned"))

\* C3: when an invocation that opened a connection returns, the socket of
\* that connection is closed.
C3_SocketClosedOnReturn ==
    (gpc = "returned" /\ sock # "none") => sock = "closed"

\* C8: a call that meets N <= 9 frames with a correlation value below 2^31 and
\* then one at or above it returns the first value of that frame after reading
\* exactly N + 1 frames; a call that meets 10 frames below 2^31 reads exactly
\* those 10 and returns no result.
C8_NotificationFiltering ==
    /\ framesRead <= 10
    /\ gpc \in {"rd_size", "rd_body"} => framesRead = notifs
    /\ gpc = "call_done" =>
         \/ /\ lastFrame # NoFrame
            /\ lastFrame.handle.hi >= 32768
            /\ notifs <= 9
            /\ framesRead = notifs + 1
            /\ callres = (IF lastFrame.env.params = << >> THEN None
                          ELSE lastFrame.env.params[1])
         \/ /\ lastFrame = NoFrame
            /\ notifs = 10 /\ framesRead = 10
            /\ callres = None

C8_Witness ==
    /\ gpc = "call_done" /\ cur_call = method
    /\ notifs = 9 /\ framesRead = 10
    /\ lastFrame # NoFrame /\ callres \in MapInfos

\* C10: at most one request of a connection is unanswered at any time, and a
\* value gbx_call returns was decoded from the server's answer to the requested
\* method.
C10_OneOutstandingCall ==
    /\ Len(pending) <= 1
    /\ (gpc = "returned" /\ result # None) => lastFrame.replyTo = method

(***************************************************************************)
(* Claims about poll_server_status.  In a state with ppc = "sleep" the     *)
(* tick has published, and current, next_map and game_info are what its    *)
(* three calls returned.                                                   *)
(***************************************************************************)
TickDone == ppc = "sleep"
\* Some statement of the tick's body raised.
TickRaises ==
    /\ Truthy(current) /\ Truthy(game_info)
    /\ \/ current.kind # "struct"
       \/ game_info.kind # "struct"
       \/ next_map.kind = "scalar"
ClampSeconds(ms) == IF ms <= 0 THEN 0 ELSE ms \div 1000

\* C4 (as claimed): a tick in which any of the three calls returned None
\* publishes {}.
C4_AnyUnavailableIsEmpty ==
    (TickDone /\ (current = None \/ next_map = None \/ game_info = None))
        => server_status = EmptySnapshot

\* C4 (amended): a tick in which the current-map-info call or the game-info
\* call returned None publishes {}; a populated snapshot is published only
\* when both returned values, and then an unavailable next-map-info call gives
\* next_map = "".
C4_CurrentOrGameUnavailableIsEmpty ==
    TickDone =>
        /\ (current = None \/ game_info = None) => server_status = EmptySnapshot
        /\ Populated(server_status) =>
              /\ current # None /\ game_info # None
              /\ next_map = None => server_status.next_map.val = << >>

C4_Witness ==
    TickDone /\ next_map = None /\ Populated(server_status)

\* C5: server_status, and what a reader returns, is {} or has exactly the four
\* fields, all computed by one tick.
WholeSnapshot(st) ==
    \/ st = EmptySnapshot
    \/ /\ DOMAIN st = SnapshotFields
       /\ \A f, g \in SnapshotFields : st[f].tick = st[g].tick
C5_SnapshotNeverTorn ==
    /\ WholeSnapshot(server_status)
    /\ observed # Unset => WholeSnapshot(observed)

C5_Witness ==
    /\ observed # Unset /\ Populated(observed)
    /\ ppc = "publish" /\ tick >= 2

PublishStep == ppc = "publish" /\ ppc' # "publish"

\* C6 (as claimed): a tick resets _map_start_time if and only if its
\* current-map-info call returned a map whose UId differs from the UId of the
\* last earlier current-map-info call that returned one.
C6_ResetIffUidChanged ==
    [][ PublishStep =>
          ( (_map_start_time' # _map_start_time)
              <=> (IsStruct(current) /\ Get(current, "UId", "") # hLastCurUid) )
      ]_vars

\* C6 (amended): a tick resets _map_start_time, to the time of the tick, if
\* and only if both its current-map-info and its game-info call returned a
\* value that is true, the first a struct, whose UId ("" without one) differs
\* from the UId of the last earlier such tick ("" if there was none); no other
\* step changes _map_start_time.
C6_ResetIffComparedUidChanged ==
    [][ IF PublishStep
        THEN /\ (_map_start_time' # _map_start_time)
                  <=> ( /\ Truthy(current) /\ Truthy(game_info)
                        /\ IsStruct(current)
                        /\ Get(current, "UId", "") # hLastBothUid )
             /\ (_map_start_time' # _map_start_time) => _map_start_time' = now
        ELSE _map_start_time' = _map_start_time
      ]_vars

C6_Witness ==
    /\ TickDone /\ tick >= 2 /\ Populated(server_status)
    /\ _map_start_time = now /\ _last_map_uid = "B"
    /\ hPrevPop # << >> /\ hPrevPop.uid = "A"

\* C7 (as claimed): time_remaining is max(0, limit - elapsed) in whole seconds
\* with elapsed counted from the tick that first saw the present UId, is never
\* negative, and does not exceed the time_remaining of the last populated
\* snapshot of the same map.
C7_RemainingSinceFirstSeen ==
    (TickDone /\ Populated(server_status)) =>
        LET lim == Get(game_info, "TimeAttackLimit", 0)
            rem == server_status.time_remaining.val
        IN  /\ rem = ClampSeconds(lim - (now + hGap - hFirstSeen))
            /\ rem >= 0
            /\ (hPrevPop # << >> /\ hPrevPop.uid = Get(current, "UId", ""))
                  => rem <= hPrevPop.rem

\* C7 (amended): time_remaining is max(0, TimeAttackLimit/1000 - elapsed) in
\* whole seconds with elapsed counted from the last reset of _map_start_time
\* (0 if it was never reset); with a limit of 90 s it is 90, 60 and 0 at
\* elapsed 0 s, 30 s and 95 s; it is never negative; and it does not exceed the
\* time_remaining of the last populated snapshot when that one was computed
\* from the same _map_start_time and the same TimeAttackLimit at a clock
\* reading that is not later.
C7_RemainingSinceReset ==
    (TickDone /\ Populated(server_status)) =>
        LET lim == Get(game_info, "TimeAttackLimit", 0)
            rem == server_status.time_remaining.val
            e   == IF hResetTime = NoTime THEN 0 ELSE now + hGap - hResetTime
        IN  /\ rem = ClampSeconds(lim - e)
            /\ rem >= 0
            /\ lim = 90000 => /\ e = 0 => rem = 90
                              /\ e = 30000 => rem = 60
                              /\ e = 95000 => rem = 0
            /\ ( /\ hPrevPop # << >>
                 /\ hPrevPop.start = _map_start_time
                 /\ hPrevPop.limit = lim
                 /\ hPrevPop.at <= now + hGap ) => rem <= hPrevPop.rem

C7_Witness ==
    /\ TickDone /\ Populated(server_status)
    /\ Get(game_info, "TimeAttackLimit", 0) = 90000
    /\ now - _map_start_time = 95000
    /\ server_status.time_remaining.val = 0
    /\ hPrevPop # << >> /\ hPrevPop.rem = 60 /\ hPrevPop.start = _map_start_time

\* C9: a tick in which the current-map-info or the game-info call returned
\* None, or in which a statement raised, publishes {} whatever the previous
\* snapshot was, and the loop stays inside its body.
C9_FailedTickPublishesEmpty ==
    /\ ppc \in {"call_current", "call_next", "call_game", "publish", "sleep"}
    /\ (TickDone /\ (current = None \/ game_info = None \/ TickRaises))
          => server_status = EmptySnapshot

C9_Witness ==
    /\ TickDone /\ tick = 2 /\ TickRaises
    /\ server_status = EmptySnapshot /\ hLastPop # << >>
====
